---- MODULE Spec2Model ----
(***************************************************************************)
(* Retrieval-and-routing pipeline of the shopping-assistant backend:       *)
(*   app/state.py      the in-memory session store                         *)
(*   app/embeddings.py precomputed-vector ranking                          *)
(*   app/retrieval.py  backend selection, lazy initialisation, search      *)
(*   app/agent.py      intent routing, follow-up resolution                *)
(*   app/main.py       the /api/chat handler                               *)
(*                                                                         *)
(* Python strings are sequences of one-character strings; None is a value  *)
(* that is no such sequence.  Each part of the program has its own         *)
(* specification (StoreSpec, SearchSpec, InitSpec, Spec); the variables a  *)
(* specification does not use stay at their initial value.                 *)
(***************************************************************************)
EXTENDS Integers, Sequences, FiniteSets, TLC

VARIABLES
    sessions,   \* state.py _sessions: session id -> [messages, products]
    appended,   \* history: session id -> every message appended since (re)creation
    call,       \* the store operation last executed: its id and products arguments, its result
    singles,    \* number of update calls so far that carried exactly one message
    backend,    \* SearchSpec: which ranking function serves ("memory" or "chroma")
    embFile,    \* data/product_embeddings.json: absent, or present with id -> vector
    embCache,   \* embeddings.py _product_embeddings_cache
    sres,       \* the search last executed: its arguments and its outcome
    ranked,     \* history: the embedding models of the vectors the last ranking pass compared
    chromaAvailable,  \* InitSpec: whether ChromaDB can be imported and opened
    initialized,      \* retrieval.py _initialized
    initLock,         \* retrieval.py _init_lock: the thread holding it, 0 when free
    useChroma,        \* retrieval.py _use_chroma
    collection,       \* retrieval.py _chroma_collection: None-ness and indexed ids
    memoryReady,      \* retrieval.py _product_embeddings has been filled
    tpc,              \* thread -> where it is in search_products
    initDone,         \* history: some init_collection call has returned normally
    reqs,       \* Spec: request slot -> the /api/chat call in flight in it
    last,       \* Spec: the /api/chat call that ended last, and how
    turns,      \* Spec: number of /api/chat calls started
    lastTurn,   \* history: session id -> products returned by its last completed turn
    ctx         \* ContextSpec: a product, and the context block _product_context builds of it

storeVars == <<sessions, appended, call, singles>>
searchVars == <<backend, embFile, embCache, sres, ranked>>
initVars == <<chromaAvailable, initialized, initLock, useChroma, collection,
              memoryReady, tpc, initDone>>
chatVars == <<reqs, last, turns, lastTurn, ctx>>
vars == <<storeVars, searchVars, initVars, chatVars>>

-----------------------------------------------------------------------------
(* Python values and string operations                                     *)

None == <<"<None>">>

Whitespace == {" ", "\t", "\n"}

UpperChars == <<"A","B","C","D","E","F","G","H","I","J","K","L","M",
                "N","O","P","Q","R","S","T","U","V","W","X","Y","Z">>

LowerChars == <<"a","b","c","d","e","f","g","h","i","j","k","l","m",
                "n","o","p","q","r","s","t","u","v","w","x","y","z">>

Digits == <<"0","1","2","3","4","5","6","7","8","9">>

Min(a, b) == IF a <= b THEN a ELSE b

\* s[-n:] for n > 0
LastN(s, n) == IF Len(s) <= n THEN s ELSE SubSeq(s, Len(s) - n + 1, Len(s))

\* s[:n] for n >= 0
FirstN(s, n) == SubSeq(s, 1, Min(n, Len(s)))

\* str.strip(): drop leading and trailing whitespace
Strip(s) ==
    LET idx == {i \in 1..Len(s) : s[i] \notin Whitespace}
    IN  IF idx = {} THEN <<>>
        ELSE LET lo == CHOOSE i \in idx : \A j \in idx : i <= j
                 hi == CHOOSE i \in idx : \A j \in idx : i >= j
             IN  SubSeq(s, lo, hi)

\* the decimal text of n, 0 <= n <= 99, as "#dd"
Text(n) == <<"#", Digits[(n \div 10) + 1], Digits[(n % 10) + 1]>>

-----------------------------------------------------------------------------
(* app/state.py                                                            *)

MAX_MESSAGES == 20
MAX_PRODUCTS == 10

EmptyState == [messages |-> <<>>, products |-> <<>>]

\* d[k] = v on a dict
Put(d, k, v) == [x \in DOMAIN d \cup {k} |-> IF x = k THEN v ELSE d[x]]

\* "not session_id or not session_id.strip()"
IsBlank(session_id) ==
    session_id = None \/ session_id = <<>> \/ Strip(session_id) = <<>>

get_or_create_session_reset(S, session_id, uuid) ==
    IF IsBlank(session_id)
    THEN [sid |-> uuid, sessions |-> Put(S, uuid, EmptyState)]
    ELSE LET sid == Strip(session_id)
         IN  [sid |-> sid, sessions |-> Put(S, sid, EmptyState)]

\* returns the pair (sid, state) as [sid, sessions]: the state is sessions[sid]
get_or_create_session(S, session_id, uuid) ==
    IF IsBlank(session_id)
    THEN [sid |-> uuid, sessions |-> Put(S, uuid, EmptyState)]
    ELSE LET sid == Strip(session_id)
         IN  [sid |-> sid,
              sessions |-> IF sid \notin DOMAIN S THEN Put(S, sid, EmptyState) ELSE S]

Msg(role, content) == [role |-> role, content |-> content]

update_session_keep_oldest(S, session_id, user_message, assistant_message, products) ==
    IF session_id = None \/ session_id = <<>> \/ session_id \notin DOMAIN S
    THEN S
    ELSE LET s  == S[session_id]
             m1 == IF user_message # None
                   THEN s.messages \o <<Msg("user", user_message)>>
                   ELSE s.messages
             m2 == IF assistant_message # None
                   THEN m1 \o <<Msg("assistant", assistant_message)>>
                   ELSE m1
         IN  [S EXCEPT ![session_id] =
                 [messages |-> FirstN(m2, MAX_MESSAGES),
                  products |-> IF products # None
                               THEN FirstN(products, MAX_PRODUCTS)
                               ELSE s.products]]

update_session_extend_products(S, session_id, user_message, assistant_message, products) ==
    IF session_id = None \/ session_id = <<>> \/ session_id \notin DOMAIN S
    THEN S
    ELSE LET s  == S[session_id]
             m1 == IF user_message # None
                   THEN s.messages \o <<Msg("user", user_message)>>
                   ELSE s.messages
             m2 == IF assistant_message # None
                   THEN m1 \o <<Msg("assistant", assistant_message)>>
                   ELSE m1
         IN  [S EXCEPT ![session_id] =
                 [messages |-> LastN(m2, MAX_MESSAGES),
                  products |-> IF products # None
                               THEN FirstN(s.products \o products, MAX_PRODUCTS)
                               ELSE s.products]]

update_session_odd_cap(S, session_id, user_message, assistant_message, products) ==
    IF session_id = None \/ session_id = <<>> \/ session_id \notin DOMAIN S
    THEN S
    ELSE LET s  == S[session_id]
             m1 == IF user_message # None
                   THEN s.messages \o <<Msg("user", user_message)>>
                   ELSE s.messages
             m2 == IF assistant_message # None
                   THEN m1 \o <<Msg("assistant", assistant_message)>>
                   ELSE m1
         IN  [S EXCEPT ![session_id] =
                 [messages |-> LastN(m2, MAX_MESSAGES - 1),
                  products |-> IF products # None
                               THEN FirstN(products, MAX_PRODUCTS)
                               ELSE s.products]]

update_session_keep_on_empty(S, session_id, user_message, assistant_message, products) ==
    IF session_id = None \/ session_id = <<>> \/ session_id \notin DOMAIN S
    THEN S
    ELSE LET s  == S[session_id]
             m1 == IF user_message # None
                   THEN s.messages \o <<Msg("user", user_message)>>
                   ELSE s.messages
             m2 == IF assistant_message # None
                   THEN m1 \o <<Msg("assistant", assistant_message)>>
                   ELSE m1
         IN  [S EXCEPT ![session_id] =
                 [messages |-> LastN(m2, MAX_MESSAGES),
                  products |-> IF products # None /\ products # <<>>
                               THEN FirstN(products, MAX_PRODUCTS)
                               ELSE s.products]]

update_session(S, session_id, user_message, assistant_message, products) ==
    IF session_id = None \/ session_id = <<>> \/ session_id \notin DOMAIN S
    THEN S
    ELSE LET s  == S[session_id]
             m1 == IF user_message # None
                   THEN s.messages \o <<Msg("user", user_message)>>
                   ELSE s.messages
             m2 == IF assistant_message # None
                   THEN m1 \o <<Msg("assistant", assistant_message)>>
                   ELSE m1
         IN  [S EXCEPT ![session_id] =
                 [messages |-> LastN(m2, MAX_MESSAGES),
                  products |-> IF products # None
                               THEN FirstN(products, MAX_PRODUCTS)
                               ELSE s.products]]

clear_session_deleting(S, session_id) ==
    IF session_id # None /\ session_id # <<>> /\ session_id \in DOMAIN S
    THEN [s \in DOMAIN S \ {session_id} |-> S[s]]
    ELSE S

\* clear_session
clear_session(S, session_id) ==
    IF session_id # None /\ session_id # <<>> /\ session_id \in DOMAIN S
    THEN [S EXCEPT ![session_id] = EmptyState]
    ELSE S

-----------------------------------------------------------------------------
(* The session store driven through its three operations.                  *)
(* StoreSpec: every kind of argument, short histories.                     *)
(* HistorySpec: one session, histories long enough to be truncated.        *)

MaxStoreAppended == 2   \* StoreSpec: messages appended over the whole store
MaxAppended == 50       \* HistorySpec: messages appended over the whole store
MaxSingles == 1         \* HistorySpec: update calls carrying exactly one message

\* the ids str(uuid.uuid4()) returns; uuid4 is taken never to return an id
\* that is already registered
UuidPool == {<<"u", "1">>}

\* ids a caller passes: missing, empty, blank, plain, padded, minted earlier
SessionIdInputs ==
    {None, <<>>, <<" ">>, <<"a">>, <<" ", "a", " ">>} \cup UuidPool

\* HistorySpec: the session's id and an id that is never registered
HistoryIds == {<<"a">>, <<"z">>}

PIds == <<"p01","p02","p03","p04","p05","p06","p07","p08",
          "p09","p10","p11","p12","p13","p14","p15","p16">>

\* product lists a caller passes: none, empty, short, 15 items
ProductInputs == {None, <<>>, SubSeq(PIds, 1, 2), SubSeq(PIds, 2, 16)}

Shapes == {"none", "user", "assistant", "both"}

RECURSIVE SumLen(_, _)
SumLen(A, D) ==
    IF D = {} THEN 0
    ELSE LET d == CHOOSE x \in D : TRUE
         IN  Len(A[d]) + SumLen(A, D \ {d})

TotalAppended(A) == SumLen(A, DOMAIN A)

\* the messages one update call appends, in the order of the contract
CallMessages(user_message, assistant_message) ==
    (IF user_message # None THEN <<Msg("user", user_message)>> ELSE <<>>)
    \o (IF assistant_message # None THEN <<Msg("assistant", assistant_message)>> ELSE <<>>)

Call(op, session_id, products, ret) ==
    [op |-> op, session_id |-> session_id, products |-> products, ret |-> ret]

NoCall == Call("none", None, None, None)

GetOrCreate(ids) ==
    \E session_id \in ids :
      \E uuid \in (IF IsBlank(session_id) THEN UuidPool \ DOMAIN sessions ELSE {None}) :
        LET r == get_or_create_session(sessions, session_id, uuid)
        IN  /\ sessions' = r.sessions
            /\ appended' = [s \in DOMAIN r.sessions |->
                              IF s \in DOMAIN sessions THEN appended[s] ELSE <<>>]
            /\ call' = Call("get_or_create", session_id, None, r.sid)
            /\ UNCHANGED <<singles, searchVars, initVars, chatVars>>

\* the n-th message of a session carries the text Text(n)
Update(ids, productInputs, maxAppended, maxSingles) ==
    \E session_id \in ids, shape \in Shapes, products \in productInputs :
      LET known == session_id \in DOMAIN sessions
          n     == IF known THEN Len(appended[session_id]) ELSE 0
          user_message      == IF shape \in {"user", "both"} THEN Text(n + 1) ELSE None
          assistant_message == IF shape \in {"assistant", "both"}
                               THEN Text(IF shape = "both" THEN n + 2 ELSE n + 1)
                               ELSE None
          new    == CallMessages(user_message, assistant_message)
          single == known /\ shape \in {"user", "assistant"}
      IN  /\ known => TotalAppended(appended) + Len(new) <= maxAppended
          /\ single => singles < maxSingles
          /\ sessions' = update_session(sessions, session_id, user_message,
                                        assistant_message, products)
          /\ appended' = IF known
                         THEN [appended EXCEPT ![session_id] = @ \o new]
                         ELSE appended
          /\ call' = Call("update", session_id, products, None)
          /\ singles' = IF single THEN singles + 1 ELSE singles
          /\ UNCHANGED <<searchVars, initVars, chatVars>>

Clear(ids) ==
    \E session_id \in ids :
      /\ sessions' = clear_session(sessions, session_id)
      /\ appended' = IF session_id \in DOMAIN sessions
                     THEN [appended EXCEPT ![session_id] = <<>>]
                     ELSE appended
      /\ call' = Call("clear", session_id, None, None)
      /\ UNCHANGED <<singles, searchVars, initVars, chatVars>>

StoreNext ==
    \/ GetOrCreate(SessionIdInputs)
    \/ Update(SessionIdInputs, ProductInputs, MaxStoreAppended, MaxStoreAppended)
    \/ Clear(SessionIdInputs)

HistoryNext ==
    \/ GetOrCreate({<<"a">>})
    \/ Update(HistoryIds, {None}, MaxAppended, MaxSingles)
    \/ Clear({<<"a">>})

-----------------------------------------------------------------------------
(* app/embeddings.py: ranking against the precomputed vectors              *)
(* Scores are fixed-point numbers, in thousandths.                         *)

RELEVANCE_THRESHOLD == 350

MaxCatalog == 3     \* products in the catalog
MaxTopK == 3        \* largest top_k passed (top_k is a count: 0..MaxTopK)

\* the catalog, in catalog order: products are identified by their id
Catalog == SubSeq(PIds, 1, MaxCatalog)

CatalogIds == {Catalog[i] : i \in 1..Len(Catalog)}

\* position of a product in the catalog
CatalogIndexOf(pid) == CHOOSE i \in 1..Len(Catalog) : Catalog[i] = pid

\* embedding vectors
Vecs == {<<5, 0>>, <<3, 4>>, <<0, 5>>, <<-5, 0>>, <<0, 0>>}

QueryVecs == {<<5, 0>>, <<3, 4>>, <<0, 0>>}

MinScores == {-1000, 0, RELEVANCE_THRESHOLD}

EMBED_MODEL_large == "text-embedding-3-large"

\* embeddings.py: the model compute_embedding embeds a query with
EMBED_MODEL == "text-embedding-3-small"

\* precompute_embeddings.py: the model the persisted vectors are computed with
precompute_EMBED_MODEL == "text-embedding-3-small"

\* an id -> vector table as precompute_embeddings.py writes it, or none (no
\* file, nothing cached)
Table(t) == [present |-> TRUE, table |-> t, model |-> precompute_EMBED_MODEL]

NoTable == [present |-> FALSE, table |-> <<>>, model |-> "none"]

\* a ranking pass: the model of the query vector and the models of the catalog
\* vectors it was compared with
Pass(query, catalog) == [query |-> query, catalog |-> catalog]

NoPass == Pass("none", {})

\* the pass of embeddings.search_products: compute_embedding(query) against
\* precomputed.get(pid) for the catalog's products
emb_pass(precomputed, catalog) ==
    Pass(EMBED_MODEL,
         {precomputed.model : i \in {j \in 1..Len(catalog) :
                                        catalog[j] \in DOMAIN precomputed.table}})

\* the persisted tables: any set of catalog ids, each with a vector
EmbTables == {Table(t) : t \in UNION {[D -> Vecs] : D \in SUBSET CatalogIds}}

RECURSIVE IsqrtIn(_, _, _)
IsqrtIn(n, lo, hi) ==
    IF lo >= hi THEN lo
    ELSE LET mid == (lo + hi + 1) \div 2
         IN  IF mid * mid <= n THEN IsqrtIn(n, mid, hi) ELSE IsqrtIn(n, lo, mid - 1)

\* floor of the square root, 0 <= n < 2^30
Isqrt(n) == IsqrtIn(n, 0, 32767)

Dot(a, b) == a[1] * b[1] + a[2] * b[2]

\* np.linalg.norm, in thousandths
Norm(a) == Isqrt(Dot(a, a) * 1000000)

\* dot / (|a| |b| + 1e-9), in thousandths; the epsilon is one unit of the
\* denominator's fixed-point scale
cosine_similarity(a, b) ==
    (Dot(a, b) * 1000000) \div ((Norm(a) * Norm(b)) \div 1000 + 1)

Scored(score, product) == [score |-> score, product |-> product]

\* the loop of search_products: the catalog items that have a vector and
\* score at least min_score, in catalog order
RECURSIVE ScoreLoopNoThreshold(_, _, _, _)
ScoreLoopNoThreshold(precomputed, query_emb, catalog, min_score) ==
    IF catalog = <<>> THEN <<>>
    ELSE LET pid  == Head(catalog)
             rest == ScoreLoopNoThreshold(precomputed, query_emb, Tail(catalog), min_score)
         IN  IF pid \notin DOMAIN precomputed THEN rest
             ELSE <<Scored(cosine_similarity(query_emb, precomputed[pid]), pid)>> \o rest

RECURSIVE ScoreLoopMissingAsZero(_, _, _, _)
ScoreLoopMissingAsZero(precomputed, query_emb, catalog, min_score) ==
    IF catalog = <<>> THEN <<>>
    ELSE LET pid   == Head(catalog)
             rest  == ScoreLoopMissingAsZero(precomputed, query_emb, Tail(catalog),
                                             min_score)
             score == IF pid \in DOMAIN precomputed
                      THEN cosine_similarity(query_emb, precomputed[pid])
                      ELSE 0
         IN  IF score >= min_score THEN <<Scored(score, pid)>> \o rest ELSE rest

RECURSIVE ScoreLoop(_, _, _, _)
ScoreLoop(precomputed, query_emb, catalog, min_score) ==
    IF catalog = <<>> THEN <<>>
    ELSE LET pid  == Head(catalog)
             rest == ScoreLoop(precomputed, query_emb, Tail(catalog), min_score)
         IN  IF pid \notin DOMAIN precomputed THEN rest
             ELSE LET score == cosine_similarity(query_emb, precomputed[pid])
                  IN  IF score >= min_score
                      THEN <<Scored(score, pid)>> \o rest
                      ELSE rest

InsertBeforeEquals(sorted, x) ==
    LET k == Cardinality({i \in 1..Len(sorted) : sorted[i].score > x.score})
    IN  SubSeq(sorted, 1, k) \o <<x>> \o SubSeq(sorted, k + 1, Len(sorted))

\* where list.sort(key=score, reverse=True) puts x among the already sorted
\* earlier items: after every item whose score is at least x's (stable)
InsertSorted(sorted, x) ==
    LET k == Cardinality({i \in 1..Len(sorted) : sorted[i].score >= x.score})
    IN  SubSeq(sorted, 1, k) \o <<x>> \o SubSeq(sorted, k + 1, Len(sorted))

RECURSIVE SortInto(_, _)
SortInto(sorted, rest) ==
    IF rest = <<>> THEN sorted
    ELSE SortInto(InsertSorted(sorted, Head(rest)), Tail(rest))

\* scored.sort(key=lambda x: x[0], reverse=True)
SortByScoreDesc(scored) == SortInto(<<>>, scored)

ProductsOf(scored) == [i \in 1..Len(scored) |-> scored[i].product]

\* embeddings.search_products once the table is loaded and the query embedded
emb_search_products(precomputed, query_emb, catalog, top_k, min_score) ==
    ProductsOf(FirstN(SortByScoreDesc(ScoreLoop(precomputed, query_emb, catalog, min_score)),
                      top_k))

\* _load_precomputed: [ok, cache]; FileNotFoundError when nothing is cached
\* and the file is absent
load_precomputed(cache, file) ==
    IF cache.present THEN [ok |-> TRUE, cache |-> cache]
    ELSE IF ~file.present THEN [ok |-> FALSE, cache |-> cache]
    ELSE [ok |-> TRUE, cache |-> file]

-----------------------------------------------------------------------------
(* app/retrieval.py: ranking through the ChromaDB index                    *)

\* _try_import_chroma: SentenceTransformerEmbeddingFunction(model_name=...), the
\* embedding function of the collection
model_name == "all-MiniLM-L6-v2"

\* the pass of collection.query over n indexed documents: the collection
\* embeds the documents it is given and the query texts with its one function
chroma_pass(n) == Pass(model_name, IF n > 0 THEN {model_name} ELSE {})

\* cosine distances the index reports, in thousandths
Distances == {0, 300, 650, 651, 1200}

ChromaCutoff == 650

\* collection.query(n_results=n): n distinct indexed ids with their distances,
\* nearest first
ChromaResults(ids, dists, n) ==
    {c \in [1..n -> [id : ids, dist : dists]] :
        \A i, j \in 1..n : i < j => c[i].id # c[j].id /\ c[i].dist <= c[j].dist}

\* the loop of _search_chroma over the candidates
RECURSIVE ChromaLoop(_, _, _, _)
ChromaLoop(cands, catalogIds, top_k, out) ==
    IF cands = <<>> \/ Len(out) >= top_k THEN out
    ELSE LET c == Head(cands)
         IN  IF c.dist > ChromaCutoff
             THEN ChromaLoop(Tail(cands), catalogIds, top_k, out)
             ELSE IF c.id \in catalogIds
                  THEN ChromaLoop(Tail(cands), catalogIds, top_k, Append(out, c.id))
                  ELSE ChromaLoop(Tail(cands), catalogIds, top_k, out)

\* _search_chroma once the index has answered
search_chroma(cands, catalog, top_k) ==
    FirstN(ChromaLoop(cands, {catalog[i] : i \in 1..Len(catalog)}, top_k, <<>>), top_k)

\* a finished search: which function ran, its arguments, the index's candidates
\* (chroma), how it ended and what it returned
SRes(fn, query_emb, top_k, min_score, cands, status, products) ==
    [fn |-> fn, query_emb |-> query_emb, top_k |-> top_k, min_score |-> min_score,
     cands |-> cands, status |-> status, products |-> products]

NoSearch == SRes("none", <<0, 0>>, 0, 0, <<>>, "none", <<>>)

-----------------------------------------------------------------------------
(* The two ranking functions applied to drawn inputs (SearchSpec): the     *)
(* initial state draws the backend and the persisted table, and each       *)
(* behaviour applies the backend's ranking function once.                  *)

SearchStart ==
    /\ \/ backend = "memory" /\ embFile \in EmbTables \cup {NoTable}
       \/ backend = "chroma" /\ embFile = NoTable
    /\ embCache = NoTable
    /\ sres = NoSearch
    /\ ranked = NoPass

\* embeddings.search_products(query, catalog, top_k, min_score)
EmbSearch ==
    /\ backend = "memory"
    /\ sres = NoSearch
    /\ \E top_k \in 0..MaxTopK, min_score \in MinScores :
         LET l == load_precomputed(embCache, embFile)
         IN  /\ embCache' = l.cache
             /\ IF ~l.ok
                THEN /\ sres' = SRes("memory", <<0, 0>>, top_k, min_score, <<>>,
                                     "FileNotFoundError", <<>>)
                     /\ ranked' = ranked
                ELSE \/ /\ sres' = SRes("memory", <<0, 0>>, top_k, min_score, <<>>,
                                        "EmbeddingError", <<>>)
                        /\ ranked' = ranked
                     \/ \E query_emb \in QueryVecs :
                          /\ sres' = SRes("memory", query_emb, top_k, min_score, <<>>, "ok",
                                          emb_search_products(l.cache.table, query_emb,
                                                              Catalog, top_k, min_score))
                          /\ ranked' = emb_pass(l.cache, Catalog)
    /\ UNCHANGED <<backend, embFile, storeVars, initVars, chatVars>>

\* _search_chroma(query, catalog, top_k)
ChromaSearch ==
    /\ backend = "chroma"
    /\ sres = NoSearch
    /\ \E top_k \in 0..MaxTopK :
         LET n == Min(top_k * 2, Len(Catalog))
         IN  \/ /\ sres' = SRes("chroma", <<0, 0>>, top_k, RELEVANCE_THRESHOLD, <<>>,
                                "QueryError", <<>>)
                /\ ranked' = ranked
             \/ \E cands \in ChromaResults(CatalogIds, Distances, n) :
                  /\ sres' = SRes("chroma", <<0, 0>>, top_k, RELEVANCE_THRESHOLD, cands,
                                  "ok", search_chroma(cands, Catalog, top_k))
                  /\ ranked' = chroma_pass(n)
    /\ UNCHANGED <<backend, embFile, embCache, storeVars, initVars, chatVars>>

SearchNext == EmbSearch \/ ChromaSearch

-----------------------------------------------------------------------------
(* app/retrieval.py: lazy initialisation and dispatch (InitSpec).          *)
(* Threads call search_products(query, catalog, top_k=5) over and over.    *)

MaxThreads == 2     \* threads calling search_products

Threads == 1..MaxThreads

DEFAULT_TOP_K == 5

ADD_BATCH == 50

\* the names app/embeddings.py defines
EmbeddingsNames ==
    {"json", "os", "Path", "Any", "np", "EMBED_MODEL", "RELEVANCE_THRESHOLD",
     "_EMBEDDINGS_PATH", "_product_embeddings_cache", "_load_precomputed",
     "get_precomputed_embedding", "compute_embedding", "cosine_similarity",
     "search_products"}

\* "from .embeddings import <name>" succeeds
CanImport(name) == name \in EmbeddingsNames

\* the parameters of embeddings.search_products, and the call
\* _emb_search(query, catalog, _product_embeddings, top_k=top_k)
EmbSearchParams == <<"query", "catalog", "top_k", "min_score">>

MemoryCallPositional == 3

MemoryCallKeywords == {"top_k"}

\* TypeError: a keyword names a parameter a positional argument already filled
BindsTwice ==
    \E i \in 1..MemoryCallPositional : EmbSearchParams[i] \in MemoryCallKeywords

Collection(ids) == [exists |-> TRUE, ids |-> ids]

NoCollection == [exists |-> FALSE, ids |-> {}]

\* distances the index reports to the calling threads
InitDistances == {300, 651}

InitStart ==
    /\ chromaAvailable \in BOOLEAN
    /\ initialized = FALSE
    /\ initLock = 0
    /\ useChroma = FALSE
    /\ collection = NoCollection
    /\ memoryReady = FALSE
    /\ tpc = [t \in Threads |-> "idle"]
    /\ initDone = FALSE
    /\ backend = "none"
    /\ embFile = NoTable
    /\ embCache = NoTable
    /\ sres = NoSearch
    /\ ranked = NoPass

Goto(t, pc) == tpc' = [tpc EXCEPT ![t] = pc]

Failed(status) ==
    sres' = SRes("none", <<0, 0>>, DEFAULT_TOP_K, RELEVANCE_THRESHOLD, <<>>, status, <<>>)

EnsureInitializedNoWait(t) ==
    /\ tpc[t] = "idle"
    /\ Goto(t, IF initialized \/ initLock # 0 THEN "dispatch" ELSE "lock")
    /\ UNCHANGED <<chromaAvailable, initialized, initLock, useChroma, collection,
                   memoryReady, initDone, searchVars, storeVars, chatVars>>

\* search_products -> _ensure_initialized: "if _initialized: return"
EnsureInitialized(t) ==
    /\ tpc[t] = "idle"
    /\ Goto(t, IF initialized THEN "dispatch" ELSE "lock")
    /\ UNCHANGED <<chromaAvailable, initialized, initLock, useChroma, collection,
                   memoryReady, initDone, searchVars, storeVars, chatVars>>

\* "with _init_lock:"
AcquireLock(t) ==
    /\ tpc[t] = "lock"
    /\ initLock = 0
    /\ initLock' = t
    /\ Goto(t, "locked")
    /\ UNCHANGED <<chromaAvailable, initialized, useChroma, collection,
                   memoryReady, initDone, searchVars, storeVars, chatVars>>

LockedCheckNoRecheck(t) ==
    /\ tpc[t] = "locked"
    /\ Goto(t, "init")
    /\ UNCHANGED <<chromaAvailable, initialized, initLock, useChroma, collection,
                   memoryReady, initDone, searchVars, storeVars, chatVars>>

\* under the lock: "if _initialized: return"
LockedCheck(t) ==
    /\ tpc[t] = "locked"
    /\ IF initialized
       THEN initLock' = 0 /\ Goto(t, "dispatch")
       ELSE initLock' = initLock /\ Goto(t, "init")
    /\ UNCHANGED <<chromaAvailable, initialized, useChroma, collection,
                   memoryReady, initDone, searchVars, storeVars, chatVars>>

\* init_collection up to the first collection.add: ChromaDB when it can be
\* opened, else the in-memory fallback, whose import raises out of
\* search_products when app/embeddings.py lacks the name
InitCollection(t) ==
    /\ tpc[t] = "init"
    /\ IF chromaAvailable
       THEN /\ useChroma' = TRUE
            /\ collection' = Collection({})
            /\ Goto(t, IF Len(Catalog) = 0 THEN "setflag" ELSE "add")
            /\ initDone' = (initDone \/ Len(Catalog) = 0)
            /\ UNCHANGED <<initLock, memoryReady, searchVars>>
       ELSE IF CanImport("compute_embeddings_batch")
            THEN /\ memoryReady' = TRUE
                 /\ initDone' = TRUE
                 /\ Goto(t, "setflag")
                 /\ UNCHANGED <<initLock, useChroma, collection, searchVars>>
            ELSE /\ initLock' = 0
                 /\ Goto(t, "idle")
                 /\ Failed("ImportError")
                 /\ UNCHANGED <<useChroma, collection, memoryReady, initDone,
                                backend, embFile, embCache, ranked>>
    /\ UNCHANGED <<chromaAvailable, initialized, storeVars, chatVars>>

\* the catalog ids not yet indexed, in catalog order
Pending == SelectSeq(Catalog, LAMBDA pid : pid \notin collection.ids)

\* one "_chroma_collection.add(...)" of the batch loop; add may raise
AddBatch(t) ==
    /\ tpc[t] = "add"
    /\ \/ LET batch == FirstN(Pending, ADD_BATCH)
              ids   == collection.ids \cup {batch[i] : i \in 1..Len(batch)}
          IN  /\ collection' = Collection(ids)
              /\ Goto(t, IF ids = CatalogIds THEN "setflag" ELSE "add")
              /\ initDone' = (initDone \/ ids = CatalogIds)
              /\ UNCHANGED <<initLock, searchVars>>
       \/ /\ initLock' = 0
          /\ Goto(t, "idle")
          /\ Failed("AddError")
          /\ UNCHANGED <<collection, initDone, backend, embFile, embCache, ranked>>
    /\ UNCHANGED <<chromaAvailable, initialized, useChroma, memoryReady, storeVars,
                   chatVars>>

SetInitializedNever(t) ==
    /\ tpc[t] = "setflag"
    /\ initialized' = initialized
    /\ initLock' = 0
    /\ Goto(t, "dispatch")
    /\ UNCHANGED <<chromaAvailable, useChroma, collection, memoryReady, initDone,
                   searchVars, storeVars, chatVars>>

\* "_initialized = True" and the end of the with block
SetInitialized(t) ==
    /\ tpc[t] = "setflag"
    /\ initialized' = TRUE
    /\ initLock' = 0
    /\ Goto(t, "dispatch")
    /\ UNCHANGED <<chromaAvailable, useChroma, collection, memoryReady, initDone,
                   searchVars, storeVars, chatVars>>

FailedRes(status) ==
    SRes("none", <<0, 0>>, DEFAULT_TOP_K, RELEVANCE_THRESHOLD, <<>>, status, <<>>)

\* how search_products(query, catalog, top_k=5) can end once _ensure_initialized
\* has returned, the index answering with one of `candidates`
DispatchOutcomes(use_chroma, coll, candidates) ==
    IF use_chroma /\ coll.exists
    THEN {FailedRes("QueryError")} \cup
         {SRes("chroma", <<0, 0>>, DEFAULT_TOP_K, RELEVANCE_THRESHOLD, cands, "ok",
               search_chroma(cands, Catalog, DEFAULT_TOP_K)) : cands \in candidates}
    ELSE IF BindsTwice
         THEN {FailedRes("TypeError")}
         ELSE {SRes("memory", <<0, 0>>, DEFAULT_TOP_K, RELEVANCE_THRESHOLD, <<>>, "ok", <<>>)}

\* the rest of search_products: _search_chroma or _search_memory
Dispatch(t) ==
    /\ tpc[t] = "dispatch"
    /\ Goto(t, "idle")
    /\ sres' \in DispatchOutcomes(useChroma, collection,
                   ChromaResults(collection.ids, InitDistances,
                                 Min(DEFAULT_TOP_K * 2, Cardinality(collection.ids))))
    /\ ranked' = IF sres'.status = "ok" /\ sres'.fn = "chroma"
                 THEN chroma_pass(Min(DEFAULT_TOP_K * 2, Cardinality(collection.ids)))
                 ELSE ranked
    /\ UNCHANGED <<chromaAvailable, initialized, initLock, useChroma, collection,
                   memoryReady, initDone, backend, embFile, embCache, storeVars,
                   chatVars>>

InitNext ==
    \E t \in Threads :
       \/ EnsureInitialized(t)
       \/ AcquireLock(t)
       \/ LockedCheck(t)
       \/ InitCollection(t)
       \/ AddBatch(t)
       \/ SetInitialized(t)
       \/ Dispatch(t)

-----------------------------------------------------------------------------
(* app/agent.py: intent routing and follow-up resolution                   *)

INTENT_SEARCH == "SEARCH"
INTENT_CHAT == "CHAT"
INTENT_IMAGE_SEARCH == "IMAGE_SEARCH"

LowerChar(c) ==
    IF \E i \in 1..26 : UpperChars[i] = c
    THEN LowerChars[CHOOSE i \in 1..26 : UpperChars[i] = c]
    ELSE c

UpperChar(c) ==
    IF \E i \in 1..26 : LowerChars[i] = c
    THEN UpperChars[CHOOSE i \in 1..26 : LowerChars[i] = c]
    ELSE c

\* str.lower(), str.upper()
Lower(s) == [i \in 1..Len(s) |-> LowerChar(s[i])]

Upper(s) == [i \in 1..Len(s) |-> UpperChar(s[i])]

\* "sub in s"
Contains(s, sub) ==
    \E i \in 0..(Len(s) - Len(sub)) : SubSeq(s, i + 1, i + Len(sub)) = sub

\* bool(x) of an optional string
Truthy(x) == x # None /\ x # <<>>
S_SEARCH == <<"S","E","A","R","C","H">>
S_hello == <<"h","e","l","l","o">>
\* follow_up_phrases
FollowUpPhrases ==
    {<<"f","i","r","s","t"," ","o","n","e">>,
     <<"s","e","c","o","n","d"," ","o","n","e">>,
     <<"t","h","i","r","d"," ","o","n","e">>,
     <<"t","h","a","t"," ","o","n","e">>,
     <<"t","h","i","s"," ","o","n","e">>,
     <<"t","h","e"," ","f","i","r","s","t">>,
     <<"t","h","e"," ","s","e","c","o","n","d">>,
     <<"c","o","m","p","a","r","e"," ","t","h","e","m">>,
     <<"t","e","l","l"," ","m","e"," ","m","o","r","e">>,
     <<"m","o","r","e"," ","a","b","o","u","t">>,
     <<"w","h","a","t"," ","a","b","o","u","t"," ","t","h","a","t">>,
     <<"h","o","w"," ","a","b","o","u","t"," ","t","h","a","t">>,
     <<"b","e","t","w","e","e","n"," ","t","h","e","m">>,
     <<"w","h","i","c","h"," ","o","n","e">>,
     <<"t","h","e"," ","d","i","f","f","e","r","e","n","c","e">>,
     <<"c","o","m","p","a","r","e"," ","t","h","e">>,
     <<"t","e","l","l"," ","m","e"," ","a","b","o","u","t"," ","t","h","e"," ","f","i","r","s","t">>,
     <<"t","e","l","l"," ","m","e"," ","a","b","o","u","t"," ","t","h","e"," ","s","e","c","o","n","d">>}
\* the question words of the comma heuristic
QuestionWords ==
    {<<"h","o","w">>,
     <<"w","h","a","t">>,
     <<"r","e","v","i","e","w","s">>,
     <<"r","a","t","i","n","g","s">>,
     <<"s","p","e","c","s">>,
     <<"c","o","m","p","a","r","e">>}

detect_intent_exact(reply, has_image) ==
    IF has_image THEN INTENT_IMAGE_SEARCH
    ELSE IF Strip(Upper(reply)) = S_SEARCH THEN INTENT_SEARCH
    ELSE INTENT_CHAT

\* detect_intent, given the classifier's reply (read only without an image)
detect_intent(reply, has_image) ==
    IF has_image THEN INTENT_IMAGE_SEARCH
    ELSE IF Contains(Strip(Upper(reply)), S_SEARCH) THEN INTENT_SEARCH
    ELSE INTENT_CHAT

is_follow_up_case_sensitive(message, previous_products) ==
    IF previous_products = <<>> THEN FALSE
    ELSE LET msg == Strip(message)
         IN  \E p \in FollowUpPhrases : Contains(msg, p)

\* _is_follow_up
is_follow_up(message, previous_products) ==
    IF previous_products = <<>> THEN FALSE
    ELSE LET msg == Strip(Lower(message))
         IN  \E p \in FollowUpPhrases : Contains(msg, p)

\* query.split(",")[0]
BeforeComma(query) ==
    LET commas == {i \in 1..Len(query) : query[i] = ","}
    IN  IF commas = {} THEN query
        ELSE SubSeq(query, 1, (CHOOSE i \in commas : \A j \in commas : i <= j) - 1)

search_query_used_from_ten(query) ==
    IF /\ Contains(query, <<",">>)
       /\ \E w \in QuestionWords : Contains(Lower(query), w)
       /\ Len(Strip(BeforeComma(query))) >= 10
    THEN Strip(BeforeComma(query))
    ELSE query

\* search_query_used: the query handed to search_products
search_query_used(query) ==
    IF /\ Contains(query, <<",">>)
       /\ \E w \in QuestionWords : Contains(Lower(query), w)
       /\ Len(Strip(BeforeComma(query))) > 10
    THEN Strip(BeforeComma(query))
    ELSE query

\* bool(image_base64 and image_base64.strip())
has_image_of(image_base64) == Truthy(image_base64) /\ Strip(image_base64) # <<>>

reused_all_previous(previous_products) == previous_products

use_previous_ignoring_image(image_base64, message, previous_products) ==
    is_follow_up(message, previous_products)

\* "use_previous = not has_image and _is_follow_up(message, previous_products)"
use_previous_of(image_base64, message, previous_products) ==
    ~has_image_of(image_base64) /\ is_follow_up(message, previous_products)

\* "products = previous_products[:5]"
reused_products(previous_products) == FirstN(previous_products, 5)

-----------------------------------------------------------------------------
(* app/main.py: the /api/chat handler (Spec).  The handler is a coroutine: *)
(* it runs without interruption between two awaits, and other requests     *)
(* run while it awaits the vision, classification or completion call.      *)

MaxInflight == 2    \* requests in flight at once
MaxTurns == 3       \* /api/chat calls started

Slots == 1..MaxInflight

M_Compare == <<"c","o","m","p","a","r","e"," ","t","h","e","m">>

M_Shoes == <<"r","e","d"," ","s","h","o","e","s">>

T_Hi == <<"h","i">>

T_Ok == <<"o","k">>

T_Shirt == <<"b","l","u","e"," ","s","h","i","r","t">>

R_CHAT == <<"C","H","A","T">>

R_SEARCH == <<"S","E","A","R","C","H">>

S_Img == <<"i","m","g">>

\* what callers send
ChatIds == {None, <<"a">>}

ChatMessages == {M_Compare, M_Shoes}

Images == {None, S_Img}

\* the request's own history and previous_products: none, or both
Fallbacks ==
    {[history |-> <<>>, previous_products |-> <<>>],
     [history |-> <<Msg("user", T_Hi)>>, previous_products |-> SubSeq(PIds, 1, 6)]}

\* what the collaborators answer
ClassifyReplies == {R_CHAT, R_SEARCH}

VisionTexts == {T_Shirt}

Responses == {T_Ok}

\* what the index answers to a chat turn: indexed ids nearest first, here in
\* catalog order
ChatCandidates(coll) ==
    {c \in ChromaResults(coll.ids, InitDistances,
                         Min(DEFAULT_TOP_K * 2, Cardinality(coll.ids))) :
        \A i, j \in 1..Len(c) : i < j => CatalogIndexOf(c[i].id) < CatalogIndexOf(c[j].id)}

\* one chat_completion request: the system prompt, the user content and the
\* temperature in tenths
Completion(system, user, temperature) ==
    [system |-> system, user |-> user, temperature |-> temperature]

DEFAULT_TEMPERATURE == 7

S_HelloBang == <<"H","e","l","l","o","!">>

\* current_turn, the instruction of the final completion call: whether it is
\* the no-match text, whether it speaks of an uploaded image, the text it
\* quotes, the products it lists, and whether it carries "Do NOT say you
\* cannot view images"
Instruction(no_match, about_image, quoted, listed, forbids_cannot_view) ==
    [no_match |-> no_match, about_image |-> about_image, quoted |-> quoted,
     listed |-> listed, forbids_cannot_view |-> forbids_cannot_view]

NoInstruction == Instruction(FALSE, FALSE, <<>>, <<>>, FALSE)

current_turn_text_only(products, has_image, search_query, message) ==
    IF products = <<>>
    THEN Instruction(TRUE, FALSE, message, <<>>, FALSE)
    ELSE Instruction(FALSE, has_image, IF has_image THEN search_query ELSE message,
                     products, TRUE)

\* "if not products: ... else: ..." of process_message
current_turn(products, has_image, search_query, message) ==
    IF products = <<>>
    THEN Instruction(TRUE, has_image, IF has_image THEN search_query ELSE message, <<>>,
                     has_image)
    ELSE Instruction(FALSE, has_image, IF has_image THEN search_query ELSE message,
                     products, TRUE)

Req(pc, sid, message, image, reqHistory, reqPrev, state_messages, state_products, history, previous_products, prevTurn, intent, query, products, retrieved) ==
    [pc |-> pc, sid |-> sid, message |-> message, image |-> image,
     reqHistory |-> reqHistory, reqPrev |-> reqPrev,
     state_messages |-> state_messages, state_products |-> state_products,
     history |-> history, previous_products |-> previous_products, prevTurn |-> prevTurn,
     intent |-> intent, query |-> query, products |-> products, retrieved |-> retrieved,
     description |-> None, reply |-> None, completions |-> <<>>, use_previous |-> FALSE,
     instruction |-> NoInstruction, error |-> "none", traced |-> FALSE]

FreeSlot ==
    Req("free", None, <<>>, None, <<>>, <<>>, <<>>, <<>>, <<>>, <<>>, <<>>, "none", <<>>,
        <<>>, FALSE)

\* a call that has ended: its session, the HTTP status, the products of the
\* response, how many stored messages the call read when it began and, as
\* history of a traced call, the request as it stood when the call ended
Ended(req, status, products) ==
    [sid |-> req.sid, status |-> status, products |-> products,
     seen |-> Len(req.state_messages),
     detail |-> IF req.traced THEN req ELSE FreeSlot]

NoTurn == Ended(FreeSlot, 0, <<>>)

-----------------------------------------------------------------------------
(* app/agent.py: _product_context applied to drawn products (ContextSpec)  *)

\* a text of n characters
FieldText(n) == [i \in 1..n |-> Digits[(i % 10) + 1]]

\* the text fields of a product: absent, empty, or of a length around the
\* cuts of _product_context and of catalog.py (specs_text[:800])
Descriptions == {None, <<>>} \cup {FieldText(n) : n \in {1, 199, 200, 201, 260}}

SpecsTexts == {None, <<>>} \cup {FieldText(n) : n \in {299, 300, 301, 800}}

ReviewsTexts == {None, <<>>} \cup {FieldText(n) : n \in {499, 500, 501}}

\* optional numbers: <<>> is None; the rating in tenths
Ratings == {<<>>, <<45>>}

ReviewCounts == {<<>>, <<14356>>}

Product(description, specs_text, reviews_json, rating, review_count) ==
    [description |-> description, specs_text |-> specs_text, reviews_json |-> reviews_json,
     rating |-> rating, review_count |-> review_count]

ContextProducts ==
    {Product(d, s, r, rating, rc) :
        d \in Descriptions, s \in SpecsTexts, r \in ReviewsTexts,
        rating \in Ratings, rc \in ReviewCounts}

\* one line of the block: its label, the text taken from the product, and
\* what the format string puts after it
Part(label, excerpt, suffix) == [label |-> label, excerpt |-> excerpt, suffix |-> suffix]

ExcerptWhole(field, n) == IF field = None THEN <<>> ELSE field

\* (p.get(field) or "")[:n]
Excerpt(field, n) == IF field = None THEN <<>> ELSE FirstN(field, n)

\* the line of a text field, left out when the excerpt is empty
TextPart(label, excerpt) ==
    IF excerpt # <<>> THEN <<Part(label, excerpt, "...")>> ELSE <<>>

\* _product_context(p): the parts joined into the block, in order
product_context(p) ==
    <<Part("Name", <<>>, ""), Part("Price", <<>>, "")>>
    \o (IF p.rating # <<>> THEN <<Part("Rating", p.rating, "/5 stars")>> ELSE <<>>)
    \o (IF p.review_count # <<>> THEN <<Part("Review count", p.review_count, "")>> ELSE <<>>)
    \o TextPart("Description", Excerpt(p.description, 200))
    \o TextPart("Specs", Excerpt(p.specs_text, 300))
    \o TextPart("Review snippets", Excerpt(p.reviews_json, 500))

Context(pc, product, parts) == [pc |-> pc, product |-> product, parts |-> parts]

NoContext == Context("none", Product(None, None, None, <<>>, <<>>), <<>>)

ContextStart == ctx \in {Context("drawn", p, <<>>) : p \in ContextProducts}

\* "Product i:" + _product_context(p) of the product blocks
ProductContext ==
    /\ ctx.pc = "drawn"
    /\ ctx' = Context("built", ctx.product, product_context(ctx.product))
    /\ UNCHANGED <<storeVars, searchVars, initVars, reqs, last, turns, lastTurn>>

ContextNext == ProductContext

\* what is_ready() answers: retrieval.py does not define it, the answer is an
\* input of the handler
ReadyAnswers == BOOLEAN

ChatStart ==
    /\ sessions = <<>>
    /\ appended = <<>>
    /\ lastTurn = <<>>
    /\ reqs = [r \in Slots |-> FreeSlot]
    /\ last = NoTurn
    /\ turns = 0
    /\ ctx = NoContext
    /\ chromaAvailable \in BOOLEAN
    /\ initialized = FALSE
    /\ useChroma = FALSE
    /\ collection = NoCollection

\* what the chat handler leaves alone
ChatFrame == UNCHANGED <<call, singles, searchVars, chromaAvailable, initLock,
                         memoryReady, tpc, initDone, ctx>>

RetrievalFrame == UNCHANGED <<initialized, useChroma, collection>>

\* _ensure_initialized(catalog), run to its end in the handler's thread: what
\* it leaves in _initialized, _use_chroma and the collection, and whether it
\* returned (ok) or raised
Ensured(ok, is_initialized, use_chroma, coll) ==
    [ok |-> ok, initialized |-> is_initialized, useChroma |-> use_chroma,
     collection |-> coll]

EnsureOutcomes ==
    IF initialized
    THEN {Ensured(TRUE, TRUE, useChroma, collection)}
    ELSE IF chromaAvailable
         THEN {Ensured(TRUE, TRUE, TRUE, Collection(CatalogIds)),
               Ensured(FALSE, FALSE, TRUE, Collection({}))}
         ELSE IF CanImport("compute_embeddings_batch")
              THEN {Ensured(TRUE, TRUE, useChroma, collection)}
              ELSE {Ensured(FALSE, FALSE, useChroma, collection)}

\* the call ends with HTTP 500 (or 503) and the session is not updated
EndWithoutRecordingUser(r, req, status) ==
    /\ last' = Ended(req, status, <<>>)
    /\ reqs' = [reqs EXCEPT ![r] = FreeSlot]
    /\ sessions' = update_session(sessions, req.sid, req.message, None, None)
    /\ UNCHANGED <<appended, lastTurn>>

EndWithout(r, req, status) ==
    /\ last' = Ended(req, status, <<>>)
    /\ reqs' = [reqs EXCEPT ![r] = FreeSlot]
    /\ UNCHANGED <<sessions, appended, lastTurn>>

\* "if not history and request.history: history = request.history"
history_for(stored, reqHistory) ==
    IF stored = <<>> /\ reqHistory # <<>> THEN reqHistory ELSE stored

previous_products_for_request_first(state_products, reqPrev) ==
    IF reqPrev # <<>> THEN reqPrev ELSE state_products

\* "if not previous_products and request.previous_products: ..."
previous_products_for(state_products, reqPrev) ==
    IF state_products = <<>> /\ reqPrev # <<>> THEN reqPrev ELSE state_products

\* the request at the await of the final completion call of a search turn; the
\* user content of that call is the instruction
Composing(req, search_query) ==
    LET instruction == current_turn(req.products, has_image_of(req.image), search_query,
                                    req.message)
    IN  [req EXCEPT !.pc = "compose", !.instruction = instruction,
                    !.completions = Append(@, Completion("SYSTEM_PROMPT", <<>>,
                                                         DEFAULT_TEMPERATURE))]

\* chat() up to the first await inside process_message, on a request drawn
\* from the given sets
ChatBeginWith(r, maxTurns, ids, messages, images, fallbacks, traced) ==
    /\ reqs[r].pc = "free"
    /\ \A q \in 1..(r - 1) : reqs[q].pc # "free"    \* the first free slot
    /\ turns < maxTurns
    /\ turns' = turns + 1
    /\ \E session_id \in ids, message \in messages, image \in images,
          fallback \in fallbacks, is_ready \in ReadyAnswers :
         LET reqHistory == fallback.history
             reqPrev    == fallback.previous_products
         IN
         IF ~is_ready
         THEN /\ last' = Ended([Req("free", session_id, message, image, reqHistory,
                                    reqPrev, <<>>, <<>>, <<>>, <<>>, <<>>, "none", <<>>,
                                    <<>>, FALSE) EXCEPT !.traced = traced],
                               503, <<>>)
              /\ UNCHANGED <<sessions, appended, lastTurn, reqs>>
         ELSE \E uuid \in (IF IsBlank(session_id) THEN UuidPool \ DOMAIN sessions
                                                  ELSE {None}) :
                LET g     == get_or_create_session(sessions, session_id, uuid)
                    state == g.sessions[g.sid]
                    fresh == g.sid \notin DOMAIN sessions
                IN  /\ sessions' = g.sessions
                    /\ appended' = IF fresh THEN Put(appended, g.sid, <<>>) ELSE appended
                    /\ lastTurn' = IF fresh THEN Put(lastTurn, g.sid, <<>>) ELSE lastTurn
                    /\ reqs' = [reqs EXCEPT ![r] = [
                         Req(IF has_image_of(image) THEN "vision" ELSE "classify",
                             g.sid, message, image, reqHistory, reqPrev,
                             state.messages, state.products,
                             LastN(history_for(state.messages, reqHistory), 20),
                             previous_products_for(state.products, reqPrev),
                             IF fresh THEN <<>> ELSE lastTurn[g.sid],
                             "none", <<>>, <<>>, FALSE) EXCEPT !.traced = traced]]
                    /\ UNCHANGED last
    /\ RetrievalFrame
    /\ ChatFrame

ChatBegin(r) ==
    ChatBeginWith(r, MaxTurns, ChatIds, ChatMessages, Images, Fallbacks, FALSE)

\* process_message from the intent to the await of the final completion call;
\* req is the request as the vision or classification call left it
Route(r, req, intent, search_query) ==
        IF intent = INTENT_CHAT
        THEN /\ reqs' = [reqs EXCEPT ![r] =
                   [req EXCEPT !.pc = "compose", !.intent = intent,
                               !.completions = Append(@,
                                   Completion("SYSTEM_PROMPT",
                                              IF Truthy(req.message) THEN req.message
                                                                     ELSE S_HelloBang,
                                              DEFAULT_TEMPERATURE))]]
             /\ UNCHANGED <<last, sessions, appended, lastTurn>>
             /\ RetrievalFrame
        ELSE LET query == IF search_query # <<>> THEN search_query ELSE req.message
             IN  IF use_previous_of(req.image, req.message, req.previous_products)
                 THEN /\ reqs' = [reqs EXCEPT ![r] =
                            Composing([req EXCEPT !.intent = intent, !.use_previous = TRUE,
                                !.products = reused_products(req.previous_products)],
                                search_query)]
                      /\ UNCHANGED <<last, sessions, appended, lastTurn>>
                      /\ RetrievalFrame
                 ELSE \E e \in EnsureOutcomes :
                      \E found \in (IF e.ok
                                    THEN DispatchOutcomes(e.useChroma, e.collection,
                                                          ChatCandidates(e.collection))
                                    ELSE {FailedRes("InitError")}) :
                        LET searched == [req EXCEPT !.intent = intent, !.retrieved = TRUE,
                                                    !.query = search_query_used(query)]
                        IN  /\ initialized' = e.initialized
                            /\ useChroma' = e.useChroma
                            /\ collection' = e.collection
                            /\ IF found.status # "ok"
                               THEN EndWithout(r, [searched EXCEPT !.error = found.status],
                                               500)
                               ELSE /\ reqs' = [reqs EXCEPT ![r] =
                                          Composing([searched EXCEPT
                                                       !.products = found.products],
                                                    search_query)]
                                    /\ UNCHANGED <<last, sessions, appended, lastTurn>>

\* the classification request of detect_intent(message, False)
classification(message) ==
    Completion("INTENT_DETECTION_PROMPT", IF Truthy(message) THEN message ELSE S_hello, 0)

ChatVisionClassifying(r, descriptions) ==
    /\ reqs[r].pc = "vision"
    /\ \/ EndWithout(r, [reqs[r] EXCEPT !.error = "describe_image"], 500) /\ RetrievalFrame
       \/ \E description \in descriptions :
            Route(r, [reqs[r] EXCEPT !.description = description,
                                     !.completions = Append(@, classification(reqs[r].message))],
                  INTENT_IMAGE_SEARCH, description)
    /\ UNCHANGED turns
    /\ ChatFrame

\* describe_image returns or raises; then the search path
ChatVisionWith(r, descriptions) ==
    /\ reqs[r].pc = "vision"
    /\ \/ EndWithout(r, [reqs[r] EXCEPT !.error = "describe_image"], 500) /\ RetrievalFrame
       \/ \E description \in descriptions :
            Route(r, [reqs[r] EXCEPT !.description = description], INTENT_IMAGE_SEARCH,
                  description)
    /\ UNCHANGED turns
    /\ ChatFrame

ChatVision(r) == ChatVisionWith(r, VisionTexts)

ChatClassifyDefaulting(r, replies) ==
    /\ reqs[r].pc = "classify"
    /\ LET asked == [reqs[r] EXCEPT
                       !.completions = Append(@, classification(reqs[r].message))]
       IN  \/ Route(r, [asked EXCEPT !.error = "classification"], INTENT_CHAT,
                    reqs[r].message)
           \/ \E reply \in replies :
                Route(r, [asked EXCEPT !.reply = reply], detect_intent(reply, FALSE),
                      reqs[r].message)
    /\ UNCHANGED turns
    /\ ChatFrame

\* the classification call returns or raises; then the path of the intent
ChatClassifyWith(r, replies) ==
    /\ reqs[r].pc = "classify"
    /\ LET asked == [reqs[r] EXCEPT
                       !.completions = Append(@, classification(reqs[r].message))]
       IN  \/ /\ EndWithout(r, [asked EXCEPT !.error = "classification"], 500)
              /\ RetrievalFrame
           \/ \E reply \in replies :
                Route(r, [asked EXCEPT !.reply = reply], detect_intent(reply, FALSE),
                      reqs[r].message)
    /\ UNCHANGED turns
    /\ ChatFrame

ChatClassify(r) == ChatClassifyWith(r, ClassifyReplies)

chat_update_keep_products(S, req, response) ==
    update_session(S, req.sid, req.message, response, None)

chat_update_from_snapshot(S, req, response) ==
    [S EXCEPT ![req.sid] =
        [messages |-> LastN(req.history \o CallMessages(req.message, response), MAX_MESSAGES),
         products |-> FirstN(req.products, MAX_PRODUCTS)]]

\* "update_session(session_id, user_message=..., assistant_message=..., products=...)"
chat_update(S, req, response) ==
    update_session(S, req.sid, req.message, response, req.products)

\* the final completion call returns or raises; the session is updated and
\* the response sent
ChatCompose(r) ==
    /\ reqs[r].pc = "compose"
    /\ \/ EndWithout(r, [reqs[r] EXCEPT !.error = "completion"], 500)
       \/ \E response \in Responses :
            LET req == reqs[r]
            IN  /\ sessions' = chat_update(sessions, req, response)
                /\ appended' = [appended EXCEPT ![req.sid] =
                                  @ \o CallMessages(req.message, response)]
                /\ lastTurn' = [lastTurn EXCEPT ![req.sid] = req.products]
                /\ last' = Ended(req, 200, req.products)
                /\ reqs' = [reqs EXCEPT ![r] = FreeSlot]
    /\ UNCHANGED turns
    /\ RetrievalFrame
    /\ ChatFrame

Next ==
    \/ \E r \in Slots : ChatBegin(r)
    \/ \E r \in Slots : ChatVision(r)
    \/ \E r \in Slots : ChatClassify(r)
    \/ \E r \in Slots : ChatCompose(r)

-----------------------------------------------------------------------------
(* One call of /api/chat on a fresh process, on requests and collaborator  *)
(* answers that reach every branch of process_message (TurnSpec).  The     *)
(* call is traced: how it went is kept in last.detail.                     *)

\* "tell me more about the first one"
M_TellMore ==
    <<"t","e","l","l"," ","m","e"," ","m","o","r","e"," ","a","b","o","u","t"," ","t","h","e"," ","f","i","r","s","t"," ","o","n","e">>

\* "  COMPARE Them "
M_Upper ==
    <<" "," ","C","O","M","P","A","R","E"," ","T","h","e","m"," ">>

\* "how do these headphones sound, also are they waterproof"
M_HowComma ==
    <<"h","o","w"," ","d","o"," ","t","h","e","s","e"," ","h","e","a","d","p","h","o","n","e","s"," ","s","o","u","n","d",","," ","a","l","s","o"," ","a","r","e"," ","t","h","e","y"," ","w","a","t","e","r","p","r","o","o","f">>

\* "nice shoes, what"
M_ShortPrefix ==
    <<"n","i","c","e"," ","s","h","o","e","s",","," ","w","h","a","t">>

\* " nice shoes , specs"
M_PadPrefix ==
    <<" ","n","i","c","e"," ","s","h","o","e","s"," ",","," ","s","p","e","c","s">>

\* "red shoes and socks, blue"
M_NoWord ==
    <<"r","e","d"," ","s","h","o","e","s"," ","a","n","d"," ","s","o","c","k","s",","," ","b","l","u","e">>

\* "show me red shoes, blue"
M_Show ==
    <<"s","h","o","w"," ","m","e"," ","r","e","d"," ","s","h","o","e","s",","," ","b","l","u","e">>

\* "these headphones, HOW good"
M_UpperWord ==
    <<"t","h","e","s","e"," ","h","e","a","d","p","h","o","n","e","s",","," ","H","O","W"," ","g","o","o","d">>

\* "compare red shoes, blue shoes, green"
M_TwoCommas ==
    <<"c","o","m","p","a","r","e"," ","r","e","d"," ","s","h","o","e","s",","," ","b","l","u","e"," ","s","h","o","e","s",","," ","g","r","e","e","n">>

\* " red sneakers , what size"
M_PadLong ==
    <<" ","r","e","d"," ","s","n","e","a","k","e","r","s"," ",","," ","w","h","a","t"," ","s","i","z","e">>

\* "search"
R_lower ==
    <<"s","e","a","r","c","h">>

\* "Not a Search."
R_Sentence ==
    <<"N","o","t"," ","a"," ","S","e","a","r","c","h",".">>

\* "chat or sear ch"
R_Broken ==
    <<"c","h","a","t"," ","o","r"," ","s","e","a","r"," ","c","h">>

\* "blue shirt with logo, compare specs"
T_Comma ==
    <<"b","l","u","e"," ","s","h","i","r","t"," ","w","i","t","h"," ","l","o","g","o",","," ","c","o","m","p","a","r","e"," ","s","p","e","c","s">>

TurnIds == {None, <<"a">>}

TurnMessages ==
    {<<>>, M_Compare, M_Shoes, M_TellMore, M_Upper, M_HowComma, M_ShortPrefix, M_PadPrefix,
     M_NoWord, M_Show, M_UpperWord, M_TwoCommas, M_PadLong}

TurnImages == {None, <<>>, <<" ">>, S_Img}

TurnReplies == {R_CHAT, R_SEARCH, R_lower, R_Sentence, R_Broken, <<>>}

TurnVisionTexts == {T_Shirt, T_Comma, <<>>}

TurnBegin == ChatBeginWith(1, 1, TurnIds, TurnMessages, TurnImages, Fallbacks, TRUE)

TurnVision == ChatVisionWith(1, TurnVisionTexts)

TurnClassify == ChatClassifyWith(1, TurnReplies)

TurnCompose == ChatCompose(1)

TurnNext == TurnBegin \/ TurnVision \/ TurnClassify \/ TurnCompose

-----------------------------------------------------------------------------
(* Specifications                                                          *)

StoreIdle ==
    /\ sessions = <<>>
    /\ appended = <<>>
    /\ call = NoCall
    /\ singles = 0

SearchIdle ==
    /\ backend = "none"
    /\ embFile = NoTable
    /\ embCache = NoTable
    /\ sres = NoSearch
    /\ ranked = NoPass

InitIdle ==
    /\ chromaAvailable = FALSE
    /\ initialized = FALSE
    /\ initLock = 0
    /\ useChroma = FALSE
    /\ collection = NoCollection
    /\ memoryReady = FALSE
    /\ tpc = [t \in Threads |-> "idle"]
    /\ initDone = FALSE

ChatIdle ==
    /\ reqs = <<>>
    /\ last = NoTurn
    /\ turns = 0
    /\ lastTurn = <<>>
    /\ ctx = NoContext

ContextInit ==
    /\ StoreIdle /\ SearchIdle /\ InitIdle
    /\ reqs = <<>>
    /\ last = NoTurn
    /\ turns = 0
    /\ lastTurn = <<>>
    /\ ContextStart

ContextSpec == ContextInit /\ [][ContextNext]_vars

StoreInit == StoreIdle /\ SearchIdle /\ InitIdle /\ ChatIdle

StoreSpec == StoreInit /\ [][StoreNext]_vars

HistoryInit == StoreIdle /\ SearchIdle /\ InitIdle /\ ChatIdle

HistorySpec == HistoryInit /\ [][HistoryNext]_vars

SearchInit == SearchStart /\ StoreIdle /\ InitIdle /\ ChatIdle

SearchSpec == SearchInit /\ [][SearchNext]_vars

InitInit == InitStart /\ StoreIdle /\ ChatIdle

InitSpec == InitInit /\ [][InitNext]_vars

Init ==
    /\ ChatStart
    /\ call = NoCall
    /\ singles = 0
    /\ SearchIdle
    /\ initLock = 0
    /\ memoryReady = FALSE
    /\ tpc = [t \in Threads |-> "idle"]
    /\ initDone = FALSE

Spec == Init /\ [][Next]_vars

TurnSpec == Init /\ [][TurnNext]_vars

\* LongSpec: the chat handler on a process in which session "a" has already
\* had SeedTurns answered CHAT turns, so that the next turns reach the cap
SeedTurns == 9

SeedMessages ==
    [i \in 1..(2 * SeedTurns) |->
        Msg(IF i % 2 = 1 THEN "user" ELSE "assistant", Text(i))]

LongInit ==
    /\ sessions = Put(<<>>, <<"a">>, [messages |-> SeedMessages, products |-> <<>>])
    /\ appended = Put(<<>>, <<"a">>, SeedMessages)
    /\ lastTurn = Put(<<>>, <<"a">>, <<>>)
    /\ reqs = [r \in Slots |-> FreeSlot]
    /\ last = NoTurn
    /\ turns = 0
    /\ ctx = NoContext
    /\ chromaAvailable \in BOOLEAN
    /\ initialized = FALSE
    /\ useChroma = FALSE
    /\ collection = NoCollection
    /\ call = NoCall
    /\ singles = 0
    /\ SearchIdle
    /\ initLock = 0
    /\ memoryReady = FALSE
    /\ tpc = [t \in Threads |-> "idle"]
    /\ initDone = FALSE

LongSpec == LongInit /\ [][Next]_vars

-----------------------------------------------------------------------------
(* Claims about the session store                                          *)

\* s is a string of whitespace only, the empty string or no string at all
Missing(session_id) ==
    \/ session_id = None
    \/ \A i \in 1..Len(session_id) : session_id[i] \in Whitespace

\* C3: the stored history of every session has at most 20 entries and is the
\* most recent 20 (or fewer) of the messages appended to the session, in append
\* order, user before assistant within a call; once 20 or more messages were
\* appended its length is exactly 20.
C3_HistoryIsLast20 ==
    \A sid \in DOMAIN sessions :
      LET h   == sessions[sid].messages
          all == appended[sid]
      IN  /\ Len(h) <= 20
          /\ Len(h) = Min(Len(all), 20)
          /\ \A i \in 1..Len(h) : h[i] = all[Len(all) - Len(h) + i]

\* 25 user/assistant pairs were appended to a session and 20 messages are stored
C3_Witness ==
    \E sid \in DOMAIN sessions :
      /\ Len(appended[sid]) = 50
      /\ \A i \in 1..50 :
           appended[sid][i].role = (IF i % 2 = 1 THEN "user" ELSE "assistant")
      /\ Len(sessions[sid].messages) = 20
      /\ sessions[sid].messages[1].content = Text(31)

\* C4: an update with a products list stores the first 10 items of that list,
\* in order, in place of the previous list; an update without products leaves
\* the stored list as it was; no stored list is ever longer than 10.
C4_ProductsReplaced ==
    /\ [](\A sid \in DOMAIN sessions : Len(sessions[sid].products) <= 10)
    /\ [][(call'.op = "update" /\ call'.session_id \in DOMAIN sessions) =>
            LET sid == call'.session_id
                p   == call'.products
                new == sessions'[sid].products
            IN  IF p # None
                THEN /\ Len(new) = Min(Len(p), 10)
                     /\ \A i \in 1..Len(new) : new[i] = p[i]
                ELSE new = sessions[sid].products]_storeVars

\* a 15-item list was passed to a session and its first 10 items are stored
C4_Witness ==
    /\ call.op = "update"
    /\ call.session_id \in DOMAIN sessions
    /\ call.products # None
    /\ Len(call.products) = 15
    /\ sessions[call.session_id].products = SubSeq(call.products, 1, 10)

\* C5: get_or_create leaves every registered session as it is; with a missing
\* or blank id it registers an empty state under an id that was not registered;
\* with a known id (ids taken without surrounding whitespace) it returns that
\* id and changes nothing; with an unknown id it registers an empty state under
\* that id.
C5_GetOrCreateKeepsSessions ==
    [][call'.op = "get_or_create" =>
         LET id  == call'.session_id
             ret == call'.ret
         IN  /\ \A s \in DOMAIN sessions :
                  s \in DOMAIN sessions' /\ sessions'[s] = sessions[s]
             /\ DOMAIN sessions' = DOMAIN sessions \cup {ret}
             /\ Missing(id) => ret \notin DOMAIN sessions
             /\ ~Missing(id) => ret = Strip(id)
             /\ ret \notin DOMAIN sessions => sessions'[ret] = EmptyState]_storeVars

\* a known, padded id was passed and a session with stored state exists
C5_Witness ==
    /\ call.op = "get_or_create"
    /\ call.session_id = <<" ", "a", " ">>
    /\ call.ret = <<"a">>
    /\ <<"a">> \in DOMAIN sessions
    /\ sessions[<<"a">>].messages # <<>>
    /\ sessions[<<"a">>].products # <<>>
    /\ UuidPool \subseteq DOMAIN sessions

-----------------------------------------------------------------------------
(* Claims about ranking                                                    *)

\* the similarity a returned product was ranked with
ResultScore(pid) ==
    IF sres.fn = "memory"
    THEN cosine_similarity(sres.query_emb, embCache.table[pid])
    ELSE LET i == CHOOSE j \in 1..Len(sres.cands) : sres.cands[j].id = pid
         IN  1000 - sres.cands[i].dist

\* C1: a search that returns, returns at most top_k products, each a catalog
\* product with a ranked vector (memory) or a candidate of the index (chroma),
\* and each with similarity >= min_score (chroma: distance <= 1 - 0.35).
C1_TopKAndThreshold ==
    sres.status = "ok" =>
      /\ Len(sres.products) <= sres.top_k
      /\ \A i \in 1..Len(sres.products) :
           LET pid == sres.products[i]
           IN  /\ pid \in CatalogIds
               /\ sres.fn = "memory" => pid \in DOMAIN embCache.table
               /\ sres.fn = "chroma" =>
                    \E j \in 1..Len(sres.cands) :
                      sres.cands[j].id = pid /\ sres.cands[j].dist <= 1000 - sres.min_score
               /\ ResultScore(pid) >= sres.min_score

\* a memory search with top_k = 1 returned one product although two qualify and
\* a third scores below min_score
C1_Witness ==
    /\ sres.fn = "memory" /\ sres.status = "ok"
    /\ sres.top_k = 1 /\ Len(sres.products) = 1
    /\ Cardinality({p \in DOMAIN embCache.table :
                      cosine_similarity(sres.query_emb, embCache.table[p]) >= sres.min_score}) = 2
    /\ \E p \in DOMAIN embCache.table :
         cosine_similarity(sres.query_emb, embCache.table[p]) < sres.min_score

\* the catalog products that qualify in a memory search
Qualifying ==
    {p \in CatalogIds \cap DOMAIN embCache.table :
        cosine_similarity(sres.query_emb, embCache.table[p]) >= sres.min_score}

\* p ranks strictly before q: higher score, or equal score and earlier in the catalog
RanksBefore(p, q) ==
    \/ ResultScore(p) > ResultScore(q)
    \/ ResultScore(p) = ResultScore(q) /\ CatalogIndexOf(p) < CatalogIndexOf(q)

\* C2: the products a memory search returns are in non-increasing score order
\* with equal scores in catalog order, and they are the first top_k of the
\* qualifying catalog items in that order.
C2_StableDescendingPrefix ==
    (sres.fn = "memory" /\ sres.status = "ok") =>
      LET r == sres.products
      IN  /\ \A i, j \in 1..Len(r) : i < j => RanksBefore(r[i], r[j])
          /\ \A i \in 1..Len(r) : r[i] \in Qualifying
          /\ Len(r) = Min(sres.top_k, Cardinality(Qualifying))
          /\ \A q \in Qualifying :
               (\A i \in 1..Len(r) : r[i] # q) =>
                 \A i \in 1..Len(r) : RanksBefore(r[i], q)

\* two returned products have equal scores, a third qualifying product with the
\* same score was cut off by top_k
C2_Witness ==
    /\ sres.fn = "memory" /\ sres.status = "ok"
    /\ Len(sres.products) = 2 /\ sres.top_k = 2
    /\ ResultScore(sres.products[1]) = ResultScore(sres.products[2])
    /\ Cardinality(Qualifying) = 3
    /\ \E q \in Qualifying :
         /\ q \notin {sres.products[1], sres.products[2]}
         /\ ResultScore(q) = ResultScore(sres.products[1])

-----------------------------------------------------------------------------
(* Claims about backend initialisation                                     *)

\* where a thread is inside the body of init_collection
InitBody == {"init", "add"}

\* C7: at most one thread is inside the initialisation body at a time, and once
\* an initialisation has completed no thread is inside it again.
C7_InitExclusiveOnce ==
    /\ Cardinality({t \in Threads : tpc[t] \in InitBody}) <= 1
    /\ initDone => \A t \in Threads : tpc[t] \notin InitBody

\* an initialisation has completed while another first caller, who saw the
\* flag unset, holds the lock and is about to look at the flag again
C7_Witness ==
    /\ initDone /\ initialized
    /\ \E t \in Threads : tpc[t] = "locked" /\ initLock = t

\* C8 as claimed: when ChromaDB is unavailable, every search call that has
\* ended returned a result, served by the in-memory backend, within the score
\* and top-k bounds.
C8_FallbackServes ==
    (~chromaAvailable /\ sres.status # "none") =>
        /\ sres.status = "ok"
        /\ sres.fn = "memory"
        /\ Len(sres.products) <= sres.top_k

-----------------------------------------------------------------------------
(* Claims about the chat handler                                           *)

\* C6: under every interleaving of /api/chat calls, each session's history is
\* the last 20 of all the messages the calls' updates appended to it, in the
\* order of the updates: no update undoes another's.
C6_NoLostUpdate ==
    /\ DOMAIN appended = DOMAIN sessions
    /\ \A sid \in DOMAIN sessions :
         sessions[sid].messages = LastN(appended[sid], MAX_MESSAGES)

\* a call has updated its session after another call, begun no later, updated
\* the same session while it was awaiting
C6_Witness ==
    /\ last.status = 200
    /\ last.sid \in DOMAIN sessions
    /\ Len(sessions[last.sid].messages) >= last.seen + 4
    /\ Len(appended[last.sid]) = Len(sessions[last.sid].messages)

\* the turns C9 is about: routed as SEARCH, without an image, the message a
\* follow-up reference to a non-empty previous product list
FollowUpTurn(req) ==
    /\ req.pc = "compose"
    /\ req.intent = INTENT_SEARCH
    /\ ~has_image_of(req.image)
    /\ req.previous_products # <<>>
    /\ is_follow_up(req.message, req.previous_products)

\* C9 as claimed: on such a turn retrieval is not invoked and the products of
\* the turn are the whole previous product list.
C9_FollowUpReusesList ==
    \A r \in Slots :
        FollowUpTurn(reqs[r]) =>
            /\ ~reqs[r].retrieved
            /\ reqs[r].products = reqs[r].previous_products

\* C9, amended: on such a turn retrieval is not invoked and the products of
\* the turn are the first five entries of the previous product list, which is
\* the session's stored list or, when that is empty, the request's own.
C9_FollowUpReusesFirstFive ==
    \A r \in Slots :
        FollowUpTurn(reqs[r]) =>
            /\ ~reqs[r].retrieved
            /\ Len(reqs[r].products) <= 5
            /\ reqs[r].products =
                 SubSeq(reqs[r].previous_products, 1, Len(reqs[r].products))
            /\ Len(reqs[r].products) = 5 \/ reqs[r].products = reqs[r].previous_products
            /\ reqs[r].previous_products =
                 IF reqs[r].state_products # <<>> THEN reqs[r].state_products
                                                  ELSE reqs[r].reqPrev

\* a follow-up turn on a previous product list of more than five entries
C9_Witness ==
    \E r \in Slots :
        /\ FollowUpTurn(reqs[r])
        /\ Len(reqs[r].previous_products) > 5
        /\ Len(reqs[r].products) = 5

\* the second of two consecutive turns of C10: the request carries no history
\* and no previous_products, the last completed turn on the session returned
\* products, and the message is a follow-up reference classified SEARCH
SecondTurn(req) ==
    /\ req.pc = "compose"
    /\ req.reqHistory = <<>>
    /\ req.reqPrev = <<>>
    /\ req.prevTurn # <<>>
    /\ req.intent = INTENT_SEARCH
    /\ ~has_image_of(req.image)
    /\ is_follow_up(req.message, req.prevTurn)

\* C10: the second turn's products are the products the first turn returned
\* and stored, and the second turn performs no retrieval.
C10_SecondTurnReusesStored ==
    \A r \in Slots :
        SecondTurn(reqs[r]) =>
            /\ ~reqs[r].retrieved
            /\ reqs[r].state_products = reqs[r].prevTurn
            /\ reqs[r].products = reqs[r].prevTurn

\* "compare them" after a search that returned products
C10_Witness ==
    \E r \in Slots :
        /\ SecondTurn(reqs[r])
        /\ reqs[r].message = M_Compare
        /\ reqs[r].products = reqs[r].prevTurn
        /\ lastTurn[reqs[r].sid] = reqs[r].prevTurn

-----------------------------------------------------------------------------
(* Claims about one turn                                                   *)

\* the calls that can be observed: those in flight, and the traced call that
\* ended last
Observed == {reqs[r] : r \in Slots} \cup {last.detail}

\* the turn issued a classification request
Classified(req) ==
    \E i \in 1..Len(req.completions) :
        req.completions[i].system = "INTENT_DETECTION_PROMPT"

\* C11: a turn that carries an image has the intent IMAGE_SEARCH, whatever its
\* message, and issues no classification request.
C11_ImageTurnIsImageSearch ==
    \A req \in Observed :
        (req.pc # "free" /\ has_image_of(req.image)) =>
            /\ ~Classified(req)
            /\ req.reply = None
            /\ req.intent \in {"none", INTENT_IMAGE_SEARCH}
            /\ (req.pc = "compose" \/ req.retrieved) => req.intent = INTENT_IMAGE_SEARCH

\* an image turn whose message reads "compare them" has been answered
C11_Witness ==
    /\ last.status = 200
    /\ has_image_of(last.detail.image)
    /\ last.detail.message = M_Compare
    /\ last.detail.intent = INTENT_IMAGE_SEARCH
    /\ Len(last.detail.completions) = 1

\* the classification requests a turn issued, as positions in its requests
Classifications(req) ==
    {i \in 1..Len(req.completions) : req.completions[i].system = "INTENT_DETECTION_PROMPT"}

\* the reply reads S-E-A-R-C-H somewhere, in either case of each letter
SaysSearch(reply) ==
    \E i \in 1..(Len(reply) - 5) :
        \A k \in 1..6 :
            reply[i + k - 1] \in {<<"S","E","A","R","C","H">>[k], <<"s","e","a","r","c","h">>[k]}

\* a turn without an image that has been classified
TextTurnClassified(req) ==
    /\ req.pc # "free"
    /\ ~has_image_of(req.image)
    /\ req.reply # None

\* C12: a turn without an image issues exactly one classification request, at
\* temperature 0, and its intent is SEARCH if the reply contains "SEARCH" in
\* any case and CHAT otherwise; such a turn never has the intent IMAGE_SEARCH.
C12_TextTurnClassifiedOnce ==
    /\ \A req \in Observed :
         (req.pc # "free" /\ ~has_image_of(req.image)) =>
             /\ req.intent # INTENT_IMAGE_SEARCH
             /\ Cardinality(Classifications(req)) <= 1
             /\ \A i \in Classifications(req) : req.completions[i].temperature = 0
             /\ req.pc = "compose" => req.reply # None
    /\ \A req \in Observed :
         TextTurnClassified(req) =>
             /\ Classifications(req) = {1}
             /\ req.intent = IF SaysSearch(req.reply) THEN INTENT_SEARCH ELSE INTENT_CHAT
    /\ (last.status = 500 /\ last.detail.pc = "classify") => Classifications(last.detail) = {1}

\* a turn without an image whose classifier answered "Not a Search." has been
\* answered as a SEARCH turn
C12_Witness ==
    /\ last.status = 200
    /\ ~has_image_of(last.detail.image)
    /\ last.detail.reply = R_Sentence
    /\ last.detail.intent = INTENT_SEARCH
    /\ Classifications(last.detail) = {1}

\* C13: a turn whose classification call failed has ended in a failure (HTTP
\* 500) with no intent, without a retrieval and without a request for a
\* response; its session holds no message of the turn and the index is untouched.
C13_ClassificationFailureEndsTurn ==
    /\ \A r \in Slots : reqs[r].error = "none"
    /\ last.detail.error = "classification" =>
         /\ last.status = 500
         /\ last.products = <<>>
         /\ last.detail.reply = None
         /\ last.detail.intent = "none"
         /\ ~last.detail.retrieved
         /\ last.detail.instruction = NoInstruction
         /\ Len(last.detail.completions) = 1
         /\ sessions[last.sid] = EmptyState
         /\ appended[last.sid] = <<>>
         /\ ~initialized /\ collection = NoCollection

\* the classification call of a turn asking for "red shoes" has failed
C13_Witness ==
    /\ last.detail.error = "classification"
    /\ last.detail.message = M_Shoes
    /\ last.status = 500
    /\ \A r \in Slots : reqs[r].pc = "free"

\* an image turn whose description has come back
ImageTurnDescribed(req) ==
    /\ req.pc # "free"
    /\ has_image_of(req.image)
    /\ req.description # None

\* the turn searched the catalog afresh: no reuse, search_products called, and
\* every product of the turn a catalog product the index returned
SearchedAfresh(req) ==
    /\ ~req.use_previous
    /\ req.retrieved
    /\ \A i \in 1..Len(req.products) : req.products[i] \in CatalogIds

\* C14 as claimed: an image turn never reuses the previous products and calls
\* the retrieval engine on the query derived from the image.
C14_ImageTurnSearchesDescription ==
    \A req \in Observed :
        ImageTurnDescribed(req) =>
            /\ SearchedAfresh(req)
            /\ req.query = search_query_used(req.description)

\* C14, amended: an image turn never reuses the previous products and calls
\* the retrieval engine, on the query derived from the image or, when the
\* description is empty, on the query derived from the message.
C14_ImageTurnSearchesAfresh ==
    \A req \in Observed :
        ImageTurnDescribed(req) =>
            /\ SearchedAfresh(req)
            /\ req.description # <<>> => req.query = search_query_used(req.description)
            /\ req.description = <<>> => req.query = search_query_used(req.message)

\* an image turn saying "compare them", with previous products, has been
\* answered from a fresh search on the description
C14_Witness ==
    /\ last.status = 200
    /\ ImageTurnDescribed(last.detail)
    /\ last.detail.message = M_Compare
    /\ last.detail.previous_products # <<>>
    /\ last.detail.description = T_Shirt
    /\ last.detail.query = T_Shirt
    /\ last.detail.retrieved

\* some phrase of the reference set occurs in the message, letter case aside
MentionsReference(message) ==
    \E phrase \in FollowUpPhrases :
        \E i \in 1..(Len(message) - Len(phrase) + 1) :
            \A k \in 1..Len(phrase) : LowerChar(message[i + k - 1]) = phrase[k]

\* a SEARCH turn without an image: the turns on which process_message
\* evaluates _is_follow_up(message, previous_products)
FollowUpEvaluated(req) ==
    /\ req.pc # "free"
    /\ ~has_image_of(req.image)
    /\ req.intent = INTENT_SEARCH

\* C15: _is_follow_up is false when there are no previous products, and
\* otherwise true exactly when the message, case-folded and trimmed, contains
\* a phrase of the reference set; it is true of "tell me more about the first
\* one" when previous products exist.
C15_FollowUpExactly ==
    \A req \in Observed :
        FollowUpEvaluated(req) =>
            /\ req.previous_products = <<>> => ~req.use_previous
            /\ req.previous_products # <<>> =>
                 (req.use_previous <=> MentionsReference(req.message))
            /\ (req.previous_products # <<>> /\ req.message = M_TellMore) => req.use_previous

\* the previous products have been reused for "  COMPARE Them ", and so has
\* the check been true of a message in upper case with blanks around it
C15_Witness ==
    /\ last.status = 200
    /\ FollowUpEvaluated(last.detail)
    /\ last.detail.message = M_Upper
    /\ last.detail.previous_products # <<>>
    /\ last.detail.use_previous

-----------------------------------------------------------------------------
(* Further claims about the session store                                  *)

\* C16: clear(id) on a registered id leaves that id registered with empty
\* messages and empty products and every other session as it was; on any other
\* id (none, empty, or not a registered key) it changes nothing.
C16_ClearResetsInPlace ==
    [][call'.op = "clear" =>
         LET id == call'.session_id
         IN  IF id \in DOMAIN sessions
             THEN /\ DOMAIN sessions' = DOMAIN sessions
                  /\ sessions'[id] = [messages |-> <<>>, products |-> <<>>]
                  /\ \A s \in DOMAIN sessions \ {id} : sessions'[s] = sessions[s]
             ELSE sessions' = sessions]_storeVars

\* a registered session has been cleared while another one holds messages
C16_Witness ==
    /\ call.op = "clear"
    /\ call.session_id \in DOMAIN sessions
    /\ sessions[call.session_id] = [messages |-> <<>>, products |-> <<>>]
    /\ \E s \in DOMAIN sessions \ {call.session_id} : sessions[s].messages # <<>>

-----------------------------------------------------------------------------
(* Further claims about one turn                                           *)

\* the retrieval of the turn returned, with no product
FoundNothing(req) ==
    /\ req.pc = "compose"
    /\ req.retrieved
    /\ req.products = <<>>

\* C17: a turn whose retrieval returned no product goes on to the final
\* completion call, with the no-match instruction (for an image turn the one
\* that speaks of the image, quotes its description and forbids saying that
\* images cannot be viewed); unless that call fails, the turn ends with HTTP
\* 200, a response, no products and its intent, and the session is updated.
C17_EmptyResultIsAnswered ==
    /\ \A req \in Observed :
         FoundNothing(req) =>
             /\ req.intent = IF has_image_of(req.image) THEN INTENT_IMAGE_SEARCH
                                                        ELSE INTENT_SEARCH
             /\ req.instruction.no_match
             /\ req.instruction.listed = <<>>
             /\ Len(req.completions) = IF has_image_of(req.image) THEN 1 ELSE 2
             /\ IF has_image_of(req.image)
                THEN /\ req.instruction.about_image
                     /\ req.instruction.forbids_cannot_view
                     /\ req.instruction.quoted = req.description
                ELSE /\ ~req.instruction.about_image
                     /\ req.instruction.quoted = req.message
    /\ FoundNothing(last.detail) =>
         \/ last.status = 500 /\ last.detail.error = "completion"
         \/ /\ last.status = 200
            /\ last.detail.error = "none"
            /\ last.products = <<>>
            /\ sessions[last.sid].products = <<>>
            /\ sessions[last.sid].messages =
                 <<Msg("user", last.detail.message)>> \o
                 SubSeq(sessions[last.sid].messages, 2, 2)
            /\ sessions[last.sid].messages[2].role = "assistant"
            /\ sessions[last.sid].messages[2].content \in Responses

\* an image turn whose search found nothing has been answered
C17_Witness ==
    /\ last.status = 200
    /\ FoundNothing(last.detail)
    /\ has_image_of(last.detail.image)
    /\ last.detail.intent = INTENT_IMAGE_SEARCH
    /\ last.detail.instruction.forbids_cannot_view
    /\ last.products = <<>>

\* the query of the turn: the vision description if there is one, else the
\* message
Asked(req) ==
    IF has_image_of(req.image) /\ req.description # <<>> THEN req.description
                                                         ELSE req.message

FirstComma(query) ==
    CHOOSE i \in 1..Len(query) : query[i] = "," /\ \A j \in 1..(i - 1) : query[j] # ","

HasQuestionWord(query) ==
    \E w \in {<<"h","o","w">>, <<"w","h","a","t">>, <<"r","e","v","i","e","w","s">>,
              <<"r","a","t","i","n","g","s">>, <<"s","p","e","c","s">>,
              <<"c","o","m","p","a","r","e">>} :
        \E i \in 1..Len(query) :
            /\ i + Len(w) - 1 <= Len(query)
            /\ \A k \in 1..Len(w) : LowerChar(query[i + k - 1]) = w[k]

\* the trimmed text before the first comma is what is searched for
Reduces(query) ==
    /\ \E i \in 1..Len(query) : query[i] = ","
    /\ HasQuestionWord(query)
    /\ Len(Strip(SubSeq(query, 1, FirstComma(query) - 1))) > 10

\* C18: the query handed to the retrieval engine is the trimmed text before
\* the first comma exactly when the query has a comma, has one of the six
\* question words in it (in any case, anywhere in the text) and that trimmed
\* prefix is longer than 10 characters; otherwise it is the query unchanged.
C18_CommaSplit ==
    \A req \in Observed :
        req.retrieved =>
            req.query = IF Reduces(Asked(req))
                        THEN Strip(SubSeq(Asked(req), 1, FirstComma(Asked(req)) - 1))
                        ELSE Asked(req)

\* the example of the comma heuristic has been searched for
C18_Witness ==
    /\ last.detail.retrieved
    /\ ~has_image_of(last.detail.image)
    /\ last.detail.message = M_HowComma
    /\ last.detail.query = SubSeq(M_HowComma, 1, 29)
    /\ Len(last.detail.query) < Len(last.detail.message)

-----------------------------------------------------------------------------
(* Further claims about the retrieval engine                               *)

\* the backend search_products dispatches to: "if _use_chroma and
\* _chroma_collection is not None"
Selected == IF useChroma /\ collection.exists THEN "chroma" ELSE "memory"

\* C19: once an initialisation has completed, what search_products selects
\* its backend by (_use_chroma and the collection) never changes again, and
\* every search call that returned a result was served by that backend.
C19_BackendFixed ==
    /\ [](sres.status = "ok" => initDone /\ sres.fn = Selected)
    /\ [][initDone => UNCHANGED <<useChroma, collection>>]_vars

\* a call has been served by the selected backend and a later call, which
\* found the initialisation complete, is about to be served
C19_Witness ==
    /\ initDone /\ initialized
    /\ sres.status = "ok"
    /\ sres.fn = Selected
    /\ \E t \in Threads : tpc[t] = "dispatch"

InitFailures == {"ImportError", "AddError"}

\* C21 as claimed: a search call that begins after an initialisation attempt
\* has failed does not set out to initialise again: it does not go for the
\* lock under which init_collection is run.
C21_FailedInitNotRetried ==
    [][\A t \in Threads :
         (sres.status \in InitFailures /\ tpc[t] = "idle" /\ tpc'[t] # "idle")
             => tpc'[t] # "lock"]_vars

-----------------------------------------------------------------------------
(* Further claims about ranking                                            *)

\* the catalog without the items that have no stored vector
WithVector == SelectSeq(Catalog, LAMBDA pid : pid \in DOMAIN embCache.table)

\* C22: in a search over the precomputed table, a catalog item without a
\* stored vector is never returned, whatever min_score is; the search returns
\* what it would return over the catalog without those items; and the only
\* errors are the absent file and the failed embedding of the query.
C22_MissingVectorSkipped ==
    sres.fn = "memory" =>
        /\ sres.status \in {"ok", "FileNotFoundError", "EmbeddingError"}
        /\ sres.status = "FileNotFoundError" => ~embFile.present
        /\ sres.status = "ok" =>
             /\ \A i \in 1..Len(sres.products) :
                  sres.products[i] \in DOMAIN embCache.table
             /\ sres.products =
                  emb_search_products(embCache.table, sres.query_emb, WithVector,
                                      sres.top_k, sres.min_score)

\* a search with min_score <= 0 returned fewer than top_k products, all the
\* items that have a vector, while another catalog item has none
C22_Witness ==
    /\ sres.fn = "memory" /\ sres.status = "ok"
    /\ sres.min_score <= 0
    /\ \E pid \in CatalogIds : pid \notin DOMAIN embCache.table
    /\ sres.products # <<>>
    /\ Len(sres.products) < sres.top_k
    /\ Len(sres.products) = Len(WithVector)

-----------------------------------------------------------------------------
(* Claims about the product context                                        *)

\* the excerpts of the block that carry the label
ExcerptsOf(label) ==
    {ctx.parts[i].excerpt : i \in {j \in 1..Len(ctx.parts) : ctx.parts[j].label = label}}

\* the label's line is there exactly when the field has text, and its excerpt
\* is the first `limit` characters of the field, the whole field if shorter
CutTo(label, field, limit) ==
    IF field = None \/ field = <<>>
    THEN ExcerptsOf(label) = {}
    ELSE /\ Cardinality(ExcerptsOf(label)) = 1
         /\ \A e \in ExcerptsOf(label) :
              /\ Len(e) <= limit
              /\ Len(e) = IF Len(field) < limit THEN Len(field) ELSE limit
              /\ \A i \in 1..Len(e) : e[i] = field[i]

\* C23: the block built of a product carries the first 200 characters of its
\* description, the first 300 of its specs and the first 500 of its review
\* snippets (the whole field when it is shorter); a longer field is cut, and
\* the block is built all the same.
C23_ExcerptsBounded ==
    ctx.pc = "built" =>
        /\ ctx.parts[1].label = "Name"
        /\ CutTo("Description", ctx.product.description, 200)
        /\ CutTo("Specs", ctx.product.specs_text, 300)
        /\ CutTo("Review snippets", ctx.product.reviews_json, 500)

\* the block of a product whose three fields are all longer than their cuts
C23_Witness ==
    /\ ctx.pc = "built"
    /\ Len(ctx.product.description) > 200
    /\ Len(ctx.product.specs_text) > 300
    /\ Len(ctx.product.reviews_json) > 500
    /\ \E e \in ExcerptsOf("Review snippets") : Len(e) = 500
    /\ \E e \in ExcerptsOf("Specs") : Len(e) = 300

-----------------------------------------------------------------------------
(* Further claims about the chat handler                                   *)

\* slot r's call ends in this step with a response
Answers(r) ==
    /\ reqs[r].pc = "compose"
    /\ reqs'[r].pc = "free"
    /\ last'.status = 200

Fails(r) ==
    /\ reqs[r].pc \notin {"free"}
    /\ reqs'[r].pc = "free"
    /\ last'.status = 500

\* C25: the step in which a turn fails changes no session, and between its
\* beginning and its end a turn writes nothing: stored messages and products
\* change only in the step in which some turn answers.
C25_FailedTurnWritesNothing ==
    [][/\ \A r \in Slots : Fails(r) => sessions' = sessions
       /\ \A sid \in DOMAIN sessions :
            (sid \in DOMAIN sessions' /\ sessions'[sid] # sessions[sid]) =>
                \E r \in Slots : Answers(r) /\ reqs[r].sid = sid]_vars

\* a turn on a session that held messages has failed, and the session holds
\* what it held when the turn began
C25_Witness ==
    /\ last.status = 500
    /\ last.sid \in DOMAIN sessions
    /\ last.seen >= 2
    /\ Len(appended[last.sid]) = last.seen
    /\ Len(sessions[last.sid].messages) = last.seen
    /\ sessions[last.sid].products # <<>>

\* the history is a sequence of (user, assistant) pairs
Paired(messages) ==
    /\ Len(messages) % 2 = 0
    /\ \A i \in 1..Len(messages) :
         messages[i].role = IF i % 2 = 1 THEN "user" ELSE "assistant"

\* C26: under every interleaving of /api/chat calls, every stored history has
\* even length and alternates user, assistant from a user message on, also
\* once it has been cut to 20; and each answering turn appends its own user
\* message and its response next to each other, as the last pair.
C26_HistoryIsPairs ==
    /\ [](\A sid \in DOMAIN sessions :
            /\ Paired(sessions[sid].messages)
            /\ Len(sessions[sid].messages) <= MAX_MESSAGES)
    /\ [][\A r \in Slots :
            Answers(r) =>
                LET before == sessions[reqs[r].sid].messages
                    after  == sessions'[reqs[r].sid].messages
                    n      == Len(after)
                IN  /\ n = IF Len(before) + 2 <= MAX_MESSAGES THEN Len(before) + 2
                                                              ELSE MAX_MESSAGES
                    /\ after[n - 1] = Msg("user", reqs[r].message)
                    /\ after[n].role = "assistant" /\ after[n].content \in Responses
                    /\ \A i \in 1..(n - 2) : after[i] = before[Len(before) + 2 - n + i]]_vars

\* two concurrent turns on the seeded session have both answered, taking its
\* history past the cap: 20 messages are stored, a user message first
C26_Witness ==
    /\ last.status = 200
    /\ last.sid = <<"a">>
    /\ Len(appended[last.sid]) >= last.seen + 4
    /\ Len(appended[last.sid]) > MAX_MESSAGES
    /\ Len(sessions[last.sid].messages) = MAX_MESSAGES
    /\ sessions[last.sid].messages[1].role = "user"

-----------------------------------------------------------------------------
(* Further claims about backend initialisation                             *)

\* the index holds every catalog product
Populated == collection.exists /\ collection.ids = CatalogIds

\* C27: a caller is past _ensure_initialized, and a search has returned a
\* result, only when an initialisation has completed and, the index being
\* selected, the index holds the whole catalog; while the flag _use_chroma is
\* set over an index that is not yet whole, _initialized is unset and no
\* caller is searching.
C27_NoSearchBeforeInitDone ==
    /\ \A t \in Threads :
         tpc[t] = "dispatch" => initialized /\ initDone /\ (useChroma => Populated)
    /\ sres.status = "ok" => initialized /\ initDone /\ (sres.fn = "chroma" => Populated)
    /\ (useChroma /\ ~Populated) =>
         /\ ~initialized
         /\ \A t \in Threads : tpc[t] # "dispatch"

\* a caller is waiting for the lock while another, having set the flag, has
\* not yet added the catalog to the index
C27_Witness ==
    /\ useChroma /\ ~Populated
    /\ \E t, u \in Threads :
         /\ tpc[t] = "add" /\ initLock = t
         /\ tpc[u] = "lock"

-----------------------------------------------------------------------------
(* Claims about the request's own context                                  *)

\* C28: a turn's history is the session's stored history (its last 20
\* messages) unless that is empty, and only then the request's own; its
\* previous products are the session's stored products unless those are
\* empty, and only then the request's own. Each is one or the other, whole:
\* the two are never joined.
C28_SessionStateFirst ==
    \A r \in Slots :
        reqs[r].pc # "free" =>
            /\ reqs[r].history =
                 LastN(IF reqs[r].state_messages # <<>> THEN reqs[r].state_messages
                                                        ELSE reqs[r].reqHistory,
                       MAX_MESSAGES)
            /\ reqs[r].previous_products =
                 IF reqs[r].state_products # <<>> THEN reqs[r].state_products
                                                  ELSE reqs[r].reqPrev

\* a turn that carries its own history and previous products is under way
\* on a session that holds history but no products: it uses the stored
\* history, not the request's, and the request's products
C28_Witness ==
    \E r \in Slots :
        /\ reqs[r].pc # "free"
        /\ reqs[r].reqHistory # <<>> /\ reqs[r].reqPrev # <<>>
        /\ reqs[r].state_messages # <<>> /\ reqs[r].state_products = <<>>
        /\ reqs[r].history = reqs[r].state_messages
        /\ reqs[r].history # reqs[r].reqHistory
        /\ reqs[r].previous_products = reqs[r].reqPrev

====
